---- MODULE Spec2Model ----
(***************************************************************************)
(* Model of the KOKO "diamond hands" analyzer:                             *)
(*   - SolanaService.processWalletTransactions / analyzeTransaction /      *)
(*     getEligibilityReason (the eligibility engine, a pure function),     *)
(*   - DiamondHandsAnalyzer.analyze with its per-holder worker             *)
(*     processBatch, run through BatchProcessor.process (p-limit),         *)
(*   - EnhancedCsvWriter (records, isWriting, writeQueue),                 *)
(*   - CacheManager's in-memory map.                                       *)
(*                                                                         *)
(* Units.  Token amounts are counted in units of 10,000,000 tokens, so     *)
(* CONFIG.MIN_TOKENS = 50_000_000 is 5 and CONFIG.MAX_TOKENS =             *)
(* 40_000_000_000 is 4000.  Time is counted in ticks of half a day, so     *)
(* that Math.floor(ms / 86400000) is a real rounding: DAY = 2 ticks.       *)
(***************************************************************************)
EXTENDS Integers, Sequences, FiniteSets, TLC

\* ------------------------------------------------------------------ bounds
MaxTxs == 3
MaxHolders == 3
BatchSize == 2
ConcurrentLimit == 2

\* ------------------------------------------------------- program constants
MIN_TOKENS == 5
MAX_TOKENS == 4000
MONTHS_REQUIRED == 3
DAY == 2
NOW == 400

\* "absent" balance entry (Array.prototype.find returned undefined)
Absent == -1

\* a Date / null / ISO string, as held in the field firstAcquired
NullDate == [tag |-> "null", t |-> 0]
DateOf(t) == [tag |-> "Date", t |-> t]

\* --------------------------------------------------------- transactions
\* A transaction as seen by analyzeTransaction for one wallet: blockTime and
\* the wallet's pre/post token balance entries for the mint (or Absent).
TxTimes == {380, 221, 220, 100}
TxDeltas == {<<3, 7>>, <<7, 3>>, <<7, 7>>, <<Absent, 7>>, <<Absent, Absent>>}
Txs == {[blockTime |-> t, pre |-> d[1], post |-> d[2]] : t \in TxTimes, d \in TxDeltas}

\* fetchAllSignatures sorts by blockTime descending; every list handed to the
\* analyzer is in that order.
SortedDesc(s) == \A i \in 1..Len(s) : \A j \in 1..Len(s) : i < j => s[i].blockTime >= s[j].blockTime
TxLists == {s \in UNION {[1..n -> Txs] : n \in 0..MaxTxs} : SortedDesc(s)}

Balances == {3, 5, 6, 4000, 4001}

\* ------------------------------------------------ SolanaService (pure part)
\* variant: a transfer that leaves the balance unchanged counts as acquired
analyzeTransactionGe(tx) ==
    IF tx.pre = Absent \/ tx.post = Absent
    THEN [acquired |-> FALSE, sold |-> FALSE, date |-> tx.blockTime, amount |-> 0]
    ELSE [acquired |-> tx.post >= tx.pre, sold |-> tx.post < tx.pre,
          date |-> tx.blockTime, amount |-> tx.post]

analyzeTransaction(tx) ==
    IF tx.pre = Absent \/ tx.post = Absent
    THEN [acquired |-> FALSE, sold |-> FALSE, date |-> tx.blockTime, amount |-> 0]
    ELSE [acquired |-> tx.post > tx.pre, sold |-> tx.post < tx.pre,
          date |-> tx.blockTime, amount |-> tx.post]

Max(a, b) == IF a >= b THEN a ELSE b

\* the for-loop of processWalletTransactions, from position k on
RECURSIVE ScanFrom(_, _, _)
ScanFrom(txs, k, st) ==
    IF k > Len(txs) THEN st
    ELSE LET r  == analyzeTransaction(txs[k])
             mh == Max(st.maxHeld, r.amount)
             fa == IF r.acquired /\ (st.firstAcquired.tag = "null" \/ r.date < st.firstAcquired.t)
                   THEN DateOf(r.date) ELSE st.firstAcquired
         IN IF r.sold
            THEN [firstAcquired |-> fa, maxHeld |-> mh, hasSold |-> TRUE]
            ELSE ScanFrom(txs, k + 1, [firstAcquired |-> fa, maxHeld |-> mh, hasSold |-> FALSE])

holdingDaysOf(firstAcquired) ==
    IF firstAcquired.tag = "null" THEN 0 ELSE (NOW - firstAcquired.t) \div DAY

\* variant: the predicate without the ceiling test
isEligibleExprNoMax(currentBalance, firstAcquired, hasSold, holdingDays) ==
    IF ~(currentBalance >= MIN_TOKENS) THEN "false"
    ELSE IF firstAcquired.tag = "null" THEN "null"
    ELSE IF hasSold THEN "false"
    ELSE IF holdingDays >= MONTHS_REQUIRED * 30 THEN "true" ELSE "false"

\* the && chain of JavaScript yields its first falsy operand: null when the
\* balance is in range and firstAcquired is null
isEligibleExpr(currentBalance, firstAcquired, hasSold, holdingDays) ==
    IF ~(currentBalance >= MIN_TOKENS) THEN "false"
    ELSE IF ~(currentBalance <= MAX_TOKENS) THEN "false"
    ELSE IF firstAcquired.tag = "null" THEN "null"
    ELSE IF hasSold THEN "false"
    ELSE IF holdingDays >= MONTHS_REQUIRED * 30 THEN "true" ELSE "false"

Reason(msg, x, y) == [msg |-> msg, x |-> x, y |-> y]

\* variant: the sale is tested before the balance
getEligibilityReasonSoldFirst(currentBalance, hasSold, firstAcquired, holdingDays) ==
    IF hasSold THEN Reason("Has sold KOKO in the past", 0, 0)
    ELSE IF currentBalance < MIN_TOKENS THEN Reason("Insufficient balance", currentBalance, MIN_TOKENS)
    ELSE IF currentBalance > MAX_TOKENS THEN Reason("Balance exceeds maximum limit", currentBalance, MAX_TOKENS)
    ELSE IF firstAcquired.tag = "null" THEN Reason("Unable to determine first acquisition", 0, 0)
    ELSE IF holdingDays < MONTHS_REQUIRED * 30 THEN Reason("Insufficient holding time", holdingDays, MONTHS_REQUIRED * 30)
    ELSE Reason("Meets all eligibility criteria", 0, 0)

getEligibilityReason(currentBalance, hasSold, firstAcquired, holdingDays) ==
    IF currentBalance < MIN_TOKENS THEN Reason("Insufficient balance", currentBalance, MIN_TOKENS)
    ELSE IF currentBalance > MAX_TOKENS THEN Reason("Balance exceeds maximum limit", currentBalance, MAX_TOKENS)
    ELSE IF hasSold THEN Reason("Has sold KOKO in the past", 0, 0)
    ELSE IF firstAcquired.tag = "null" THEN Reason("Unable to determine first acquisition", 0, 0)
    ELSE IF holdingDays < MONTHS_REQUIRED * 30 THEN Reason("Insufficient holding time", holdingDays, MONTHS_REQUIRED * 30)
    ELSE Reason("Meets all eligibility criteria", 0, 0)

processWalletTransactions(currentBalance, transactions) ==
    IF Len(transactions) = 0
    THEN [isEligible |-> "false", reason |-> Reason("No transaction history found", 0, 0),
          firstAcquired |-> NullDate, maxHeld |-> currentBalance, hasSold |-> FALSE,
          holdingDays |-> 0]
    ELSE LET st == ScanFrom(transactions, 1,
                     [firstAcquired |-> NullDate, maxHeld |-> currentBalance, hasSold |-> FALSE])
             hd == holdingDaysOf(st.firstAcquired)
         IN [isEligible |-> isEligibleExpr(currentBalance, st.firstAcquired, st.hasSold, hd),
             reason |-> getEligibilityReason(currentBalance, st.hasSold, st.firstAcquired, hd),
             firstAcquired |-> st.firstAcquired, maxHeld |-> st.maxHeld, hasSold |-> st.hasSold,
             holdingDays |-> hd]

\* ------------------------------------------------------- conversions
\* Number.prototype.toLocaleString on a whole amount: groups of three digits
\* joined by commas; the inverse is replace(/,/g, '') followed by parseFloat.
toLocaleString(n) == <<n \div 1000, n % 1000>>
parseAmount(s) == s[1] * 1000 + s[2]

\* JSON.stringify followed by JSON.parse: a Date comes back as its ISO string
JsonRoundTrip(an) ==
    [an EXCEPT !.firstAcquired = IF @.tag = "Date" THEN [tag |-> "string", t |-> @.t] ELSE @]

\* long division: floor((q + r/b) * 10^k), never forming a * 10^k
RECURSIVE Digits(_, _, _, _)
Digits(q, r, b, k) == IF k = 0 THEN q ELSE Digits(q * 10 + (r * 10) \div b, (r * 10) % b, b, k - 1)

\* ((amount / total) * 100).toFixed(4), in units of 0.0001 percent
toFixed4Percent(amount, total) == (Digits(amount \div total, amount % total, total, 7) + 5) \div 10

\* ------------------------------------------------------------ the run
Wallets == {"w1", "w2"}
HolderPool == {[owner |-> "w1", amount |-> 6], [owner |-> "w1", amount |-> 8],
               [owner |-> "w2", amount |-> 6]}
HolderLists == UNION {[1..n -> HolderPool] : n \in 0..MaxHolders}

Acq(t) == [blockTime |-> t, pre |-> 3, post |-> 7]
Sale(t) == [blockTime |-> t, pre |-> 7, post |-> 3]
\* what the chain returns for each wallet (newest first)
ChainChoices ==
    {[w \in Wallets |-> <<Acq(100)>>],
     [w \in Wallets |-> IF w = "w1" THEN <<Sale(380), Acq(100)>> ELSE <<Acq(100)>>],
     [w \in Wallets |-> IF w = "w1" THEN <<Acq(100)>> ELSE <<>>]}

NullAnalysis ==
    [isEligible |-> "undefined", reason |-> Reason("", 0, 0), firstAcquired |-> NullDate,
     maxHeld |-> 0, hasSold |-> FALSE, holdingDays |-> 0]

\* cache keys: holder.owner, `analysis_${wallet}`, `tx_history_${wallet}`
OwnerKey(w) == <<"owner", w>>
AnalysisKey(w) == <<"analysis", w>>
TxKey(w) == <<"tx_history", w>>
\* the key 'all_holders' of getAllHolders
HoldersKey == <<"all_holders", "">>
CacheKeys == {OwnerKey(w) : w \in Wallets} \cup {AnalysisKey(w) : w \in Wallets}
             \cup {TxKey(w) : w \in Wallets} \cup {HoldersKey}
EmptyCache == [k \in CacheKeys |-> {}]
\* analyses an earlier run left in transactions.json
PersistedEligible == JsonRoundTrip(processWalletTransactions(6, <<Acq(100)>>))
PersistedNoHistory == JsonRoundTrip(processWalletTransactions(6, <<>>))
CacheFiles == {EmptyCache,
               [EmptyCache EXCEPT ![OwnerKey("w1")] = {PersistedEligible}],
               [EmptyCache EXCEPT ![OwnerKey("w1")] = {PersistedNoHistory}],
               [EmptyCache EXCEPT ![AnalysisKey("w1")] = {PersistedEligible}]}
Hit(c, k) == c[k] # {}
Value(c, k) == CHOOSE v \in c[k] : TRUE

VARIABLES holders, chain, cache, processedWallets, wk, run, csv, scan, rt, bp, cm, acc, db
\* rt: one call of withRetry; bp: one call of BatchProcessor.process;
\* cm: one CacheManager and its file; acc: one EnhancedCsvWriter called with
\* partial records; db: one CacheManager with the time of its timeout
compVars == <<rt, bp, cm, acc, db>>
vars == <<holders, chain, cache, processedWallets, wk, run, csv, scan, rt, bp, cm, acc, db>>

Idx == 1..Len(holders)
ScanOff == [pc |-> "off", balance |-> 0, txs |-> <<>>, result |-> NullAnalysis]

\* attempt: the parameter of fetchTransactionsWithRetry; fetchError: what
\* getTransactionHistory caught; dropped: a detail call failed and its
\* transaction was left out
InitWorker ==
    [pc |-> "queued", analysis |-> NullAnalysis, transactions |-> <<>>, outcome |-> "pending",
     attempt |-> 1, fetchError |-> "none", dropped |-> FALSE]
\* attempt: the parameter of fetchHoldersWithRetry; fatal: the error analyze
\* rethrows to main
InitRun ==
    [phase |-> "getHolders", attempt |-> 1, fatal |-> "none",
     batchLo |-> 1, totalEligibleKoko |-> 0, eligibleHolders |-> <<>>,
     stats |-> [processed |-> 0, eligible |-> 0, errors |-> 0]]
\* writesInFlight: the writeRecords calls that have not settled
InitCsv ==
    [records |-> [w \in Wallets |-> {}], isWriting |-> FALSE, writeQueue |-> <<>>,
     inflight |-> [w \in Wallets |-> {}], file |-> [w \in Wallets |-> {}], failed |-> FALSE,
     writesInFlight |-> 0]

RtOff == [pc |-> "off"]
BpOff == [pc |-> "off"]
CmOff == [pc |-> "off"]
AccOff == [pc |-> "off"]
DbOff == [pc |-> "off"]

\* holders is the list getAllHolders will return; a cache file that holds
\* analyses was written by a run that had stored 'all_holders' first
Init ==
    /\ holders \in HolderLists
    /\ chain \in ChainChoices
    /\ \E c \in CacheFiles :
          cache = IF c = EmptyCache THEN c ELSE [c EXCEPT ![HoldersKey] = {holders}]
    /\ rt = RtOff
    /\ bp = BpOff
    /\ cm = CmOff
    /\ acc = AccOff
    /\ db = DbOff
    /\ processedWallets = {}
    /\ wk = [i \in 1..Len(holders) |-> InitWorker]
    /\ run = InitRun
    /\ csv = InitCsv
    /\ scan = ScanOff

\* ------------------------------------------------ retries of SolanaService
retryLimit == 3
\* the static methods of class Logger
LoggerMethods == {"showWelcome", "success", "error", "info", "progress"}

\* the catch block of fetchHoldersWithRetry and of fetchTransactionsWithRetry:
\* with attempts left it calls Logger.warn, then waits and calls itself with
\* attempt + 1; calling a method the class does not have throws a TypeError
\* out of the catch block.  Without attempts left it rethrows the error.
RetryCatch(attempt, error) ==
    IF attempt < retryLimit
    THEN IF "warn" \in LoggerMethods
         THEN [retry |-> TRUE, error |-> "none"]
         ELSE [retry |-> FALSE, error |-> "TypeError"]
    ELSE [retry |-> FALSE, error |-> error]

\* `await this.cacheManager.get('all_holders')` of getAllHolders returns: a
\* cached list (an empty one too) is used as it is
GetAllHolders ==
    /\ run.phase = "getHolders"
    /\ run' = [run EXCEPT !.phase = IF Hit(cache, HoldersKey) THEN "processing"
                                    ELSE "fetchHolders"]
    /\ UNCHANGED <<holders, chain, cache, processedWallets, wk, csv, scan, compVars>>

\* getParsedProgramAccounts resolves; `await this.cacheManager.set(...)`
FetchHoldersOk ==
    /\ run.phase = "fetchHolders"
    /\ cache' = [cache EXCEPT ![HoldersKey] = {holders}]
    /\ run' = [run EXCEPT !.phase = "processing"]
    /\ UNCHANGED <<holders, chain, processedWallets, wk, csv, scan, compVars>>

\* getParsedProgramAccounts rejects: the catch block; an error that leaves
\* fetchHoldersWithRetry is rethrown by getAllHolders and by analyze
FetchHoldersFail ==
    /\ run.phase = "fetchHolders"
    /\ LET r == RetryCatch(run.attempt, "ProviderError")
       IN run' = IF r.retry THEN [run EXCEPT !.attempt = @ + 1]
                 ELSE [run EXCEPT !.phase = "holdersFailed", !.fatal = r.error]
    /\ UNCHANGED <<holders, chain, cache, processedWallets, wk, csv, scan, compVars>>

\* the object the catch block of analyzeWallet returns
ErrorAnalysis(currentBalance) ==
    [isEligible |-> "false", reason |-> Reason("Error during analysis", 0, 0),
     firstAcquired |-> NullDate, maxHeld |-> currentBalance, hasSold |-> FALSE,
     holdingDays |-> 0]

\* ------------------------------------------ BatchProcessor.process / p-limit
InBatch(i) == run.batchLo <= i /\ i < run.batchLo + BatchSize
Active == {i \in Idx : wk[i].pc \notin {"queued", "done"}}

\* the limiter starts the oldest queued task of the batch when a slot is free;
\* processBatch then runs up to `await this.cacheManager.get(holder.owner)`
Start(i) ==
    /\ run.phase = "processing"
    /\ InBatch(i)
    /\ wk[i].pc = "queued"
    /\ \A j \in Idx : (InBatch(j) /\ wk[j].pc = "queued") => i <= j
    /\ Cardinality(Active) < ConcurrentLimit
    /\ wk' = [wk EXCEPT ![i].pc = "getOwner"]
    /\ UNCHANGED <<holders, chain, cache, processedWallets, run, csv, scan, compVars>>

\* ----------------------------------------------------- EnhancedCsvWriter
ToISO(firstAcquired) ==
    IF firstAcquired.tag = "Date" THEN [tag |-> "string", t |-> firstAcquired.t]
    ELSE [tag |-> "Unknown", t |-> 0]

\* the object literal built by updateCsvRecord
CsvRecord(holder, an) ==
    [status |-> IF an.isEligible = "true" THEN "ELIGIBLE" ELSE "INELIGIBLE",
     owner |-> holder.owner,
     currentAmount |-> toLocaleString(holder.amount),
     maxHeld |-> toLocaleString(an.maxHeld),
     airdropShare |-> IF an.isEligible = "true" THEN [kind |-> "0", v |-> 0]
                      ELSE [kind |-> "N/A", v |-> 0],
     holdingDays |-> an.holdingDays,
     firstAcquired |-> ToISO(an.firstAcquired),
     everSold |-> IF an.hasSold THEN "YES" ELSE "NO",
     reason |-> an.reason,
     verdict |-> IF an.isEligible = "true" THEN "YES" ELSE "NO"]

\* analysis.firstAcquired?.toISOString(): a string has no toISOString
RecordThrows(an) == an.firstAcquired.tag = "string"

\* variant: the record is replaced by data
updateRecordReplace(c, key, data) == [c EXCEPT !.records[key] = {data}]

\* { ...old, ...data }: the fields of data, and those of old that data lacks
Spread(old, data) ==
    [f \in DOMAIN old \cup DOMAIN data |-> IF f \in DOMAIN data THEN data[f] ELSE old[f]]
\* this.records.get(key): spreading undefined adds no field
NoFields == [f \in {} |-> ""]
RecordGet(c, key) == IF c.records[key] = {} THEN NoFields ELSE CHOOSE r \in c.records[key] : TRUE

\* updateRecord up to scheduleWrite: records.set(key, {...old, ...data})
updateRecord(c, key, data) ==
    [c EXCEPT !.records[key] = {Spread(RecordGet(c, key), data)}]

\* variant: scheduleWrite without the test of isWriting
scheduleWriteUnguarded(c, i) ==
    [c EXCEPT !.isWriting = TRUE, !.inflight = c.records, !.writesInFlight = @ + 1]

\* scheduleWrite up to its first await, called by worker i
scheduleWrite(c, i) ==
    IF c.isWriting
    THEN [c EXCEPT !.writeQueue = Append(@, i)]
    ELSE [c EXCEPT !.isWriting = TRUE, !.inflight = c.records, !.writesInFlight = @ + 1]

\* ------------------------------------------------- processBatch (worker)
\* One action per resumption of a worker after an await; what runs between
\* two awaits is one step.  Resumptions of different workers interleave in
\* any order.
\* variant: the worker without its try/catch, the error reaches process
AccountUncaught(i, an) ==
    LET h  == holders[i]
        r1 == IF an.isEligible = "true"
              THEN [run EXCEPT !.eligibleHolders = Append(@, h),
                               !.totalEligibleKoko = @ + h.amount,
                               !.stats.eligible = @ + 1]
              ELSE run
    IN IF RecordThrows(an)
       THEN /\ run' = [r1 EXCEPT !.phase = "failed"]
            /\ wk' = [wk EXCEPT ![i].pc = "done", ![i].analysis = an, ![i].outcome = "error"]
            /\ csv' = csv
       ELSE LET c1 == updateRecord(csv, h.owner, CsvRecord(h, an))
            IN /\ run' = r1
               /\ csv' = scheduleWrite(c1, i)
               /\ wk' = [wk EXCEPT ![i].pc = IF csv.isWriting THEN "waitWrite" ELSE "writing",
                                    ![i].analysis = an]

\* lines 60-69 of the worker, run in one turn once `analysis` is known:
\* account the holder, then updateCsvRecord up to the first await
Account(i, an) ==
    LET h  == holders[i]
        r1 == IF an.isEligible = "true"
              THEN [run EXCEPT !.eligibleHolders = Append(@, h),
                               !.totalEligibleKoko = @ + h.amount,
                               !.stats.eligible = @ + 1]
              ELSE run
    IN IF RecordThrows(an)
       THEN /\ run' = [r1 EXCEPT !.stats.errors = @ + 1]
            /\ wk' = [wk EXCEPT ![i].pc = "done", ![i].analysis = an, ![i].outcome = "error"]
            /\ csv' = csv
       ELSE LET c1 == updateRecord(csv, h.owner, CsvRecord(h, an))
            IN /\ run' = r1
               /\ csv' = scheduleWrite(c1, i)
               /\ wk' = [wk EXCEPT ![i].pc = IF csv.isWriting THEN "waitWrite" ELSE "writing",
                                    ![i].analysis = an]

\* `await this.cacheManager.get(holder.owner)` returns; on a miss analyzeWallet
\* runs up to `await this.cacheManager.get(cacheKey)`
GetOwnerUnguarded(i) ==
    /\ wk[i].pc = "getOwner"
    /\ LET w == holders[i].owner
       IN IF Hit(cache, OwnerKey(w))
          THEN /\ Account(i, Value(cache, OwnerKey(w)))
               /\ UNCHANGED processedWallets
          ELSE /\ processedWallets' = processedWallets \cup {w}
               /\ wk' = [wk EXCEPT ![i].pc = "getAnalysis"]
               /\ UNCHANGED <<run, csv>>
    /\ UNCHANGED <<holders, chain, cache, scan, compVars>>

GetOwner(i) ==
    /\ wk[i].pc = "getOwner"
    /\ LET w == holders[i].owner
       IN IF Hit(cache, OwnerKey(w))
          THEN /\ Account(i, Value(cache, OwnerKey(w)))
               /\ UNCHANGED processedWallets
          ELSE IF w \in processedWallets
          THEN /\ wk' = [wk EXCEPT ![i].pc = "done", ![i].outcome = "skipped"]
               /\ UNCHANGED <<processedWallets, run, csv>>
          ELSE /\ processedWallets' = processedWallets \cup {w}
               /\ wk' = [wk EXCEPT ![i].pc = "getAnalysis"]
               /\ UNCHANGED <<run, csv>>
    /\ UNCHANGED <<holders, chain, cache, scan, compVars>>

\* processWalletTransactions and the test of line 189 of analyzeWallet
WithTransactions(i, transactions) ==
    LET an == processWalletTransactions(holders[i].amount, transactions)
    IN [wk EXCEPT ![i].analysis = an, ![i].transactions = transactions,
                  ![i].pc = IF an.isEligible = "true" \/ Len(transactions) > 0
                            THEN "setAnalysis" ELSE "setOwner"]

AfterTransactions(i, transactions) == wk' = WithTransactions(i, transactions)

\* `await this.cacheManager.get(cacheKey)` of analyzeWallet returns
GetAnalysis(i) ==
    /\ wk[i].pc = "getAnalysis"
    /\ LET k == AnalysisKey(holders[i].owner)
       IN IF Hit(cache, k)
          THEN wk' = [wk EXCEPT ![i].analysis = Value(cache, k), ![i].pc = "setOwner"]
          ELSE wk' = [wk EXCEPT ![i].pc = "getTx"]
    /\ UNCHANGED <<holders, chain, cache, processedWallets, run, csv, scan, compVars>>

\* `await this.cacheManager.get(cacheKey)` of getTransactionHistory returns
GetTx(i) ==
    /\ wk[i].pc = "getTx"
    /\ LET k == TxKey(holders[i].owner)
       IN IF Hit(cache, k)
          THEN AfterTransactions(i, Value(cache, k))
          ELSE wk' = [wk EXCEPT ![i].pc = "fetching"]
    /\ UNCHANGED <<holders, chain, cache, processedWallets, run, csv, scan, compVars>>

\* fetchTransactionsWithRetry resolves with the wallet's relevant transactions
FetchOk(i) ==
    /\ wk[i].pc = "fetching"
    /\ LET transactions == chain[holders[i].owner]
       IN IF Len(transactions) > 0
          THEN wk' = [wk EXCEPT ![i].transactions = transactions, ![i].pc = "setTx"]
          ELSE AfterTransactions(i, transactions)
    /\ UNCHANGED <<holders, chain, cache, processedWallets, run, csv, scan, compVars>>

\* the list without its k-th element
Without(l, k) == [n \in 1..(Len(l) - 1) |-> IF n < k THEN l[n] ELSE l[n + 1]]

\* fetchTransactionDetails: a getParsedTransaction call that rejects becomes
\* null (`.catch(() => null)`) and is filtered out, the other details are kept
FetchPartial(i) ==
    /\ wk[i].pc = "fetching"
    /\ \E k \in 1..Len(chain[holders[i].owner]) :
          LET transactions == Without(chain[holders[i].owner], k)
          IN IF Len(transactions) > 0
             THEN wk' = [wk EXCEPT ![i].transactions = transactions, ![i].pc = "setTx",
                                   ![i].dropped = TRUE]
             ELSE wk' = [WithTransactions(i, transactions) EXCEPT ![i].dropped = TRUE]
    /\ UNCHANGED <<holders, chain, cache, processedWallets, run, csv, scan, compVars>>

\* getSignaturesForAddress rejects inside fetchTransactionsWithRetry: the catch
\* block; an error that leaves fetchTransactionsWithRetry is caught by
\* getTransactionHistory, which logs it and returns []
FetchFail(i) ==
    /\ wk[i].pc = "fetching"
    /\ LET r == RetryCatch(wk[i].attempt, "ProviderError")
       IN wk' = IF r.retry THEN [wk EXCEPT ![i].attempt = @ + 1]
                ELSE [WithTransactions(i, <<>>) EXCEPT ![i].fetchError = r.error]
    /\ UNCHANGED <<holders, chain, cache, processedWallets, run, csv, scan, compVars>>

\* `await this.cacheManager.set(cacheKey, transactions)` returns
SetTx(i) ==
    /\ wk[i].pc = "setTx"
    /\ cache' = [cache EXCEPT ![TxKey(holders[i].owner)] = {wk[i].transactions}]
    /\ AfterTransactions(i, wk[i].transactions)
    /\ UNCHANGED <<holders, chain, processedWallets, run, csv, scan, compVars>>

\* `await this.cacheManager.set(cacheKey, analysis)` of analyzeWallet returns
SetAnalysis(i) ==
    /\ wk[i].pc = "setAnalysis"
    /\ cache' = [cache EXCEPT ![AnalysisKey(holders[i].owner)] = {wk[i].analysis}]
    /\ wk' = [wk EXCEPT ![i].pc = "setOwner"]
    /\ UNCHANGED <<holders, chain, processedWallets, run, csv, scan, compVars>>

\* `await this.cacheManager.set(holder.owner, analysis)` returns
SetOwner(i) ==
    /\ wk[i].pc = "setOwner"
    /\ cache' = [cache EXCEPT ![OwnerKey(holders[i].owner)] = {wk[i].analysis}]
    /\ Account(i, wk[i].analysis)
    /\ UNCHANGED <<holders, chain, processedWallets, scan, compVars>>

\* the workers whose updateRecord waits in writeQueue
Queued(c) == {c.writeQueue[n] : n \in 1..Len(c.writeQueue)}

\* the finally block of scheduleWrite
Release(c) == [c EXCEPT !.isWriting = FALSE, !.writeQueue = <<>>, !.writesInFlight = @ - 1]

\* writeRecords resolves: the finally block releases the queue; the writer
\* and the released workers count themselves processed and return.
\* csv.file is the table handed to the last writeRecords call that resolved.
WriteOk(i) ==
    /\ wk[i].pc = "writing"
    /\ csv' = [Release(csv) EXCEPT !.file = csv.inflight]
    /\ wk' = [j \in Idx |-> IF j = i \/ j \in Queued(csv)
                             THEN [wk[j] EXCEPT !.pc = "done", !.outcome = "processed"]
                             ELSE wk[j]]
    /\ run' = [run EXCEPT !.stats.processed = @ + 1 + Len(csv.writeQueue)]
    /\ UNCHANGED <<holders, chain, cache, processedWallets, scan, compVars>>

\* writeRecords rejects: the queue is released all the same, the writer's
\* worker catches the error
WriteFailNoFinally(i) ==
    /\ wk[i].pc = "writing"
    /\ csv' = [csv EXCEPT !.failed = TRUE, !.writesInFlight = @ - 1]
    /\ wk' = [wk EXCEPT ![i].pc = "done", ![i].outcome = "error"]
    /\ run' = [run EXCEPT !.stats.errors = @ + 1]
    /\ UNCHANGED <<holders, chain, cache, processedWallets, scan, compVars>>

WriteFail(i) ==
    /\ wk[i].pc = "writing"
    /\ csv' = [Release(csv) EXCEPT !.failed = TRUE]
    /\ wk' = [j \in Idx |-> IF j = i THEN [wk[j] EXCEPT !.pc = "done", !.outcome = "error"]
                             ELSE IF j \in Queued(csv)
                             THEN [wk[j] EXCEPT !.pc = "done", !.outcome = "processed"]
                             ELSE wk[j]]
    /\ run' = [run EXCEPT !.stats.processed = @ + Len(csv.writeQueue), !.stats.errors = @ + 1]
    /\ UNCHANGED <<holders, chain, cache, processedWallets, scan, compVars>>

\* Promise.all of the batch resolves; the loop of process maps the next batch
\* or returns to analyze
BatchDone ==
    /\ run.phase = "processing"
    /\ \A i \in Idx : InBatch(i) => wk[i].pc = "done"
    /\ run' = [run EXCEPT !.batchLo = @ + BatchSize,
                          !.phase = IF run.batchLo + BatchSize > Len(holders)
                                    THEN "processed" ELSE "processing"]
    /\ UNCHANGED <<holders, chain, cache, processedWallets, wk, csv, scan, compVars>>

\* ------------------------------------------------- DiamondHandsAnalyzer
ShareBatchSize == 1000

\* the forEach of updateAirdropShares over one chunk of records
WithShares(records, total) ==
    [w \in Wallets |->
        {IF r.status = "ELIGIBLE"
         THEN [r EXCEPT !.airdropShare =
                   [kind |-> "fixed", v |-> toFixed4Percent(parseAmount(r.currentAmount), total)]]
         ELSE r : r \in records[w]}]

RecordCount(records) == Cardinality({w \in Wallets : records[w] # {}})

\* analyze after process: totalEligibleKoko > 0, updateAirdropShares runs its
\* chunk (all records fit one chunk of ShareBatchSize) up to the 100 ms delay
updateAirdropShares ==
    /\ run.phase = "processed"
    /\ run.totalEligibleKoko > 0
    /\ RecordCount(csv.records) <= ShareBatchSize
    /\ csv' = [csv EXCEPT !.records = WithShares(@, run.totalEligibleKoko)]
    /\ run' = [run EXCEPT !.phase = "flush"]
    /\ UNCHANGED <<holders, chain, cache, processedWallets, wk, scan, compVars>>

\* `await this.csvWriter.flush()`: EnhancedCsvWriter has no method flush, the
\* call throws a TypeError, analyze rethrows it and main exits with status 1
Flush ==
    /\ run.phase = "flush"
    /\ run' = [run EXCEPT !.phase = "failed", !.fatal = "TypeError"]
    /\ UNCHANGED <<holders, chain, cache, processedWallets, wk, csv, scan, compVars>>

\* totalEligibleKoko = 0: analyze goes straight to displayResults
DisplayResults ==
    /\ run.phase = "processed"
    /\ run.totalEligibleKoko = 0
    /\ run' = [run EXCEPT !.phase = "done"]
    /\ UNCHANGED <<holders, chain, cache, processedWallets, wk, csv, scan, compVars>>

Next ==
    \/ GetAllHolders
    \/ FetchHoldersOk
    \/ FetchHoldersFail
    \/ \E i \in Idx : Start(i)
    \/ \E i \in Idx : GetOwner(i)
    \/ \E i \in Idx : GetAnalysis(i)
    \/ \E i \in Idx : GetTx(i)
    \/ \E i \in Idx : FetchOk(i)
    \/ \E i \in Idx : FetchPartial(i)
    \/ \E i \in Idx : FetchFail(i)
    \/ \E i \in Idx : SetTx(i)
    \/ \E i \in Idx : SetAnalysis(i)
    \/ \E i \in Idx : SetOwner(i)
    \/ \E i \in Idx : WriteOk(i)
    \/ \E i \in Idx : WriteFail(i)
    \/ BatchDone
    \/ updateAirdropShares
    \/ Flush
    \/ DisplayResults

Spec == Init /\ [][Next]_vars

\* the same run over the token accounts of one owner whose balances lie
\* within, below and above the limits of config.js
AccountPool == {[owner |-> "w1", amount |-> 6], [owner |-> "w1", amount |-> 3],
                [owner |-> "w1", amount |-> 4001]}
AccountLists == UNION {[1..n -> AccountPool] : n \in 0..MaxHolders}

InitAccounts ==
    /\ holders \in AccountLists
    /\ chain \in ChainChoices
    /\ \E c \in CacheFiles :
          cache = IF c = EmptyCache THEN c ELSE [c EXCEPT ![HoldersKey] = {holders}]
    /\ rt = RtOff
    /\ bp = BpOff
    /\ cm = CmOff
    /\ acc = AccOff
    /\ db = DbOff
    /\ processedWallets = {}
    /\ wk = [i \in 1..Len(holders) |-> InitWorker]
    /\ run = InitRun
    /\ csv = InitCsv
    /\ scan = ScanOff

SpecAccounts == InitAccounts /\ [][Next]_vars

\* ------------------------------------------- the analyzer as a function
\* processWalletTransactions applied to every balance and every sorted list
InitAnalysis ==
    /\ holders = <<>>
    /\ chain = [w \in Wallets |-> <<>>]
    /\ cache = EmptyCache
    /\ rt = RtOff
    /\ bp = BpOff
    /\ cm = CmOff
    /\ acc = AccOff
    /\ db = DbOff
    /\ processedWallets = {}
    /\ wk = <<>>
    /\ run = [InitRun EXCEPT !.phase = "off"]
    /\ csv = InitCsv
    /\ scan \in {[pc |-> "input", balance |-> b, txs |-> l, result |-> NullAnalysis] :
                   b \in Balances, l \in TxLists}

Analyze ==
    /\ scan.pc = "input"
    /\ scan' = [scan EXCEPT !.pc = "result",
                            !.result = processWalletTransactions(scan.balance, scan.txs)]
    /\ UNCHANGED <<holders, chain, cache, processedWallets, wk, run, csv, compVars>>

NextAnalysis == Analyze

SpecAnalysis == InitAnalysis /\ [][NextAnalysis]_vars

\* ---------------------------------------------------------------- withRetry
MaxRetries == 4
\* options.retries, options.minTimeout, options.maxTimeout (milliseconds);
\* CONFIG.RETRY_OPTIONS is [retries 3, minTimeout 1000, maxTimeout 3000]
RetryOptions ==
    {[retries |-> n, minTimeout |-> mn, maxTimeout |-> mx] :
        n \in 0..MaxRetries, mn \in {1000, 2000}, mx \in {3000, 5000}}
\* what fn() rejects with, what it resolves with
RetryErrors == {"E1", "E2"}
RetryValues == {"V1", "V2"}

Min(a, b) == IF a <= b THEN a ELSE b
RECURSIVE Pow2(_)
Pow2(n) == IF n = 0 THEN 1 ELSE 2 * Pow2(n - 1)

\* withRetry up to its first await: with retries >= 1 the loop is entered and
\* fn() is invoked; with retries < 1 the loop is skipped and lastError, still
\* undefined, is thrown.  errors lists what the invocations rejected with.
RetryStart(o) ==
    [pc |-> IF o.retries >= 1 THEN "pending" ELSE "thrown", options |-> o, attempt |-> 1,
     calls |-> IF o.retries >= 1 THEN 1 ELSE 0, lastError |-> "undefined",
     delays |-> <<>>, errors |-> <<>>, result |-> "none", thrown |-> "undefined"]

InitRetry ==
    /\ holders = <<>>
    /\ chain = [w \in Wallets |-> <<>>]
    /\ cache = EmptyCache
    /\ processedWallets = {}
    /\ wk = <<>>
    /\ run = [InitRun EXCEPT !.phase = "off"]
    /\ csv = InitCsv
    /\ scan = ScanOff
    /\ bp = BpOff
    /\ cm = CmOff
    /\ acc = AccOff
    /\ db = DbOff
    /\ rt \in {RetryStart(o) : o \in RetryOptions}

\* variant: the error of the first attempt is thrown at the end
RetryCatchFirst(r, error) ==
    LET r1 == [r EXCEPT !.lastError = error, !.errors = Append(@, error)]
    IN IF r.attempt < r.options.retries
       THEN [r1 EXCEPT !.pc = "sleeping",
                       !.delays = Append(@, Min(r.options.minTimeout * Pow2(r.attempt - 1),
                                                r.options.maxTimeout))]
       ELSE [r1 EXCEPT !.pc = "thrown", !.attempt = @ + 1, !.thrown = r1.errors[1]]

\* variant: the delay grows with the attempt number, not with its power of two
RetryCatchLinear(r, error) ==
    LET r1 == [r EXCEPT !.lastError = error, !.errors = Append(@, error)]
    IN IF r.attempt < r.options.retries
       THEN [r1 EXCEPT !.pc = "sleeping",
                       !.delays = Append(@, Min(r.options.minTimeout * r.attempt,
                                                r.options.maxTimeout))]
       ELSE [r1 EXCEPT !.pc = "thrown", !.attempt = @ + 1, !.thrown = r1.lastError]

\* the catch block, and after the last attempt the end of the loop and
\* `throw lastError`
withRetryCatch(r, error) ==
    LET r1 == [r EXCEPT !.lastError = error, !.errors = Append(@, error)]
    IN IF r.attempt < r.options.retries
       THEN [r1 EXCEPT !.pc = "sleeping",
                       !.delays = Append(@, Min(r.options.minTimeout * Pow2(r.attempt - 1),
                                                r.options.maxTimeout))]
       ELSE [r1 EXCEPT !.pc = "thrown", !.attempt = @ + 1, !.thrown = r1.lastError]

\* fn() resolves: `return await fn()`
RetryResolve ==
    /\ rt.pc = "pending"
    /\ \E v \in RetryValues : rt' = [rt EXCEPT !.pc = "returned", !.result = v]
    /\ UNCHANGED <<holders, chain, cache, processedWallets, wk, run, csv, scan, bp, cm, acc, db>>

\* fn() rejects
RetryReject ==
    /\ rt.pc = "pending"
    /\ \E e \in RetryErrors : rt' = withRetryCatch(rt, e)
    /\ UNCHANGED <<holders, chain, cache, processedWallets, wk, run, csv, scan, bp, cm, acc, db>>

\* the delay is over: attempt++, the loop test holds, fn() is invoked again
RetryWake ==
    /\ rt.pc = "sleeping"
    /\ rt' = [rt EXCEPT !.pc = "pending", !.attempt = @ + 1, !.calls = @ + 1]
    /\ UNCHANGED <<holders, chain, cache, processedWallets, wk, run, csv, scan, bp, cm, acc, db>>

NextRetry ==
    \/ RetryResolve
    \/ RetryReject
    \/ RetryWake

SpecRetry == InitRetry /\ [][NextRetry]_vars

\* ------------------------------------- BatchProcessor.process on any tasks
\* process(items, processFn) with a processFn that may throw
MaxItems == 4
BpBatchSize == 3
BpLimit == 2
ItemPool == {"a", "b"}
ItemLists == UNION {[1..n -> ItemPool] : n \in 0..MaxItems}
\* what processFn(item) resolves with
ResultOf(item) == <<"result", item>>

BpIdx == 1..Len(bp.items)
BpInBatch(b, i) == b.batchLo <= i /\ i < b.batchLo + BpBatchSize

\* batch.map(item => this.limiter(...)): the tasks of the batch that starts
\* at lo are handed to the limiter
Submit(st, lo) ==
    [i \in DOMAIN st |-> IF lo <= i /\ i < lo + BpBatchSize THEN "queued" ELSE st[i]]

\* process up to its first await; an empty list is returned at once.
\* order: the tasks of the batch in the order they resolved; throws: the
\* tasks in the order they threw
BatchStart(items) ==
    [pc |-> IF Len(items) = 0 THEN "resolved" ELSE "pending",
     items |-> items, batchLo |-> 1,
     st |-> Submit([i \in 1..Len(items) |-> "waiting"], 1),
     order |-> <<>>, outOfOrder |-> FALSE, throws |-> <<>>,
     results |-> <<>>, error |-> 0]

InitBatch ==
    /\ holders = <<>>
    /\ chain = [w \in Wallets |-> <<>>]
    /\ cache = EmptyCache
    /\ processedWallets = {}
    /\ wk = <<>>
    /\ run = [InitRun EXCEPT !.phase = "off"]
    /\ csv = InitCsv
    /\ scan = ScanOff
    /\ rt = RtOff
    /\ cm = CmOff
    /\ acc = AccOff
    /\ db = DbOff
    /\ bp \in {BatchStart(items) : items \in ItemLists}

\* variant: a task that threw keeps its slot
OccupiedAfterThrow(b) == {i \in DOMAIN b.st : b.st[i] \in {"running", "rejected"}}

\* the tasks that hold a slot of the limiter
Occupied(b) == {i \in DOMAIN b.st : b.st[i] = "running"}

\* variant: the limiter starts a task whatever the number of running ones
BpStartUnlimited(i) ==
    /\ bp.st[i] = "queued"
    /\ \A j \in BpIdx : bp.st[j] = "queued" => i <= j
    /\ bp' = [bp EXCEPT !.st[i] = "running"]
    /\ UNCHANGED <<holders, chain, cache, processedWallets, wk, run, csv, scan, rt, cm, acc, db>>

\* the limiter starts its oldest queued task when a slot is free
BpStart(i) ==
    /\ bp.st[i] = "queued"
    /\ \A j \in BpIdx : bp.st[j] = "queued" => i <= j
    /\ Cardinality(Occupied(bp)) < BpLimit
    /\ bp' = [bp EXCEPT !.st[i] = "running"]
    /\ UNCHANGED <<holders, chain, cache, processedWallets, wk, run, csv, scan, rt, cm, acc, db>>

\* processFn(item) resolves
BpResolve(i) ==
    /\ bp.st[i] = "running"
    /\ bp' = [bp EXCEPT !.st[i] = "resolved", !.order = Append(@, i),
                        !.outOfOrder = @ \/ \E j \in BpIdx :
                                               j < i /\ bp.st[j] \in {"queued", "running"}]
    /\ UNCHANGED <<holders, chain, cache, processedWallets, wk, run, csv, scan, rt, cm, acc, db>>

\* processFn(item) throws: the promise of the limiter rejects, and Promise.all
\* with it unless it is settled; the await in process rethrows and process
\* rejects.  The error is named by the index of the task that threw it.
BpReject(i) ==
    /\ bp.st[i] = "running"
    /\ bp' = IF bp.pc = "pending"
             THEN [bp EXCEPT !.st[i] = "rejected", !.throws = Append(@, i),
                             !.pc = "rejected", !.error = i]
             ELSE [bp EXCEPT !.st[i] = "rejected", !.throws = Append(@, i)]
    /\ UNCHANGED <<holders, chain, cache, processedWallets, wk, run, csv, scan, rt, cm, acc, db>>

\* variant: the array holds the values in the order the tasks resolved
BatchResultsByCompletion(b) == [n \in 1..Len(b.order) |-> ResultOf(b.items[b.order[n]])]

\* the array Promise.all resolves with: one value per task, by position
BatchResults(b) == [n \in 1..Len(b.order) |-> ResultOf(b.items[b.batchLo + n - 1])]

\* Promise.all resolves: results.push(...batchResults), then the next slice
\* is mapped, or results is returned
BpBatchDone ==
    /\ bp.pc = "pending"
    /\ \A i \in BpIdx : BpInBatch(bp, i) => bp.st[i] = "resolved"
    /\ bp' = [bp EXCEPT !.results = @ \o BatchResults(bp),
                        !.order = <<>>,
                        !.batchLo = @ + BpBatchSize,
                        !.st = Submit(@, bp.batchLo + BpBatchSize),
                        !.pc = IF bp.batchLo + BpBatchSize > Len(bp.items)
                               THEN "resolved" ELSE "pending"]
    /\ UNCHANGED <<holders, chain, cache, processedWallets, wk, run, csv, scan, rt, cm, acc, db>>

NextBatch ==
    \/ \E i \in BpIdx : BpStart(i)
    \/ \E i \in BpIdx : BpResolve(i)
    \/ \E i \in BpIdx : BpReject(i)
    \/ BpBatchDone

SpecBatch == InitBatch /\ [][NextBatch]_vars

\* ------------------------------------------------------------ CacheManager
\* One CacheManager over one directory, called by concurrent callers, and a
\* second instance made over the same directory afterwards.
MaxCalls == 3
CmCallers == 1..MaxCalls
CmKeys == {"k1", "k2"}
\* values handed to set: analyses as analyzeWallet computes them
CmValues == {processWalletTransactions(6, <<Acq(100)>>), processWalletTransactions(6, <<>>)}
CmEmpty == [k \in CmKeys |-> {}]

\* JSON.stringify(Object.fromEntries(this.cache)), as JSON.parse gives it back
Stringify(map) == [k \in CmKeys |-> {JsonRoundTrip(v) : v \in map[k]}]

\* a call: inst is the instance it was made on
CmIdle == [pc |-> "idle", inst |-> 0, op |-> "none", key |-> "k1", val |-> {}, got |-> {}]

\* the constructor; file: the content of transactions.json ('{}' when the
\* file does not exist); timers: the timeouts set and neither fired nor
\* cleared; writing: the texts of the writeFile calls not yet settled.
\* Bookkeeping: loads counts the readFile calls of this instance, stored holds
\* for each key the value of the last set that returned, arms counts the
\* timeouts set while none was pending, fires the timeouts that fired,
\* written is the text of the last writeFile call, original what the first
\* instance had stored.
NewCacheManager(file) ==
    [pc |-> "on", instance |-> 1, initialized |-> FALSE, cache |-> CmEmpty, file |-> file,
     timers |-> 0, writing |-> <<>>, callers |-> [c \in CmCallers |-> CmIdle],
     loads |-> 0, stored |-> CmEmpty, arms |-> 0, fires |-> 0, written |-> CmEmpty,
     original |-> CmEmpty]

InitCache ==
    /\ holders = <<>>
    /\ chain = [w \in Wallets |-> <<>>]
    /\ cache = EmptyCache
    /\ processedWallets = {}
    /\ wk = <<>>
    /\ run = [InitRun EXCEPT !.phase = "off"]
    /\ csv = InitCsv
    /\ scan = ScanOff
    /\ rt = RtOff
    /\ bp = BpOff
    /\ cm = NewCacheManager(CmEmpty)
    /\ acc = AccOff
    /\ db = DbOff

\* scheduleWrite of CacheManager: clearTimeout of the pending timeout, setTimeout
cacheScheduleWrite(m) ==
    [m EXCEPT !.timers = (IF @ > 0 THEN @ - 1 ELSE 0) + 1,
              !.arms = IF m.timers = 0 THEN @ + 1 ELSE @]

\* get and set after `await this.init()`
AfterInit(m, c) ==
    LET call == m.callers[c]
    IN IF call.op = "get"
       THEN [m EXCEPT !.callers[c].pc = "done", !.callers[c].got = m.cache[call.key]]
       ELSE cacheScheduleWrite([m EXCEPT !.callers[c].pc = "done",
                                         !.cache[call.key] = call.val,
                                         !.stored[call.key] = call.val])

\* get(key) or set(key, value) is called (the calls are numbered in the
\* order they are made): init returns at once when initialized, else it
\* starts mkdir and readFile
CmCall(c) ==
    /\ cm.pc = "on"
    /\ cm.callers[c].pc = "idle"
    /\ \A d \in CmCallers : d < c => cm.callers[d].pc # "idle"
    /\ \E op \in {"get", "set"} : \E key \in CmKeys :
       \E val \in IF op = "set" THEN {{v} : v \in CmValues} ELSE {{}} :
          LET m == [cm EXCEPT !.callers[c] = [CmIdle EXCEPT !.inst = cm.instance, !.op = op,
                                                          !.key = key, !.val = val]]
          IN cm' = IF cm.initialized THEN AfterInit(m, c)
                   ELSE [m EXCEPT !.callers[c].pc = "loading"]
    /\ UNCHANGED <<holders, chain, cache, processedWallets, wk, run, csv, scan, rt, bp, acc, db>>

\* mkdir and readFile of the caller's init resolve: this.cache becomes a new
\* Map of the file's entries, initialized is set, the caller's get or set goes on
CmLoaded(c) ==
    /\ cm.pc = "on"
    /\ cm.callers[c].pc = "loading"
    /\ cm' = AfterInit([cm EXCEPT !.cache = cm.file, !.initialized = TRUE, !.loads = @ + 1], c)
    /\ UNCHANGED <<holders, chain, cache, processedWallets, wk, run, csv, scan, rt, bp, acc, db>>

\* mkdir rejects (or the file is not JSON): the catch block names Logger, which
\* cache-manager.js does not import; the ReferenceError rejects init and the
\* caller's get or set, initialized stays false
CmLoadFail(c) ==
    /\ cm.pc = "on"
    /\ cm.callers[c].pc = "loading"
    /\ cm' = [cm EXCEPT !.callers[c].pc = "failed"]
    /\ UNCHANGED <<holders, chain, cache, processedWallets, wk, run, csv, scan, rt, bp, acc, db>>

\* a timeout fires: writeFile is called with the mapping of that moment
CmTimerFire ==
    /\ cm.pc = "on"
    /\ cm.timers > 0
    /\ cm' = [cm EXCEPT !.timers = @ - 1, !.fires = @ + 1,
                        !.writing = Append(@, Stringify(cm.cache)),
                        !.written = Stringify(cm.cache)]
    /\ UNCHANGED <<holders, chain, cache, processedWallets, wk, run, csv, scan, rt, bp, acc, db>>

\* a writeFile call resolves
CmWriteDone(n) ==
    /\ cm.pc = "on"
    /\ n \in 1..Len(cm.writing)
    /\ cm' = [cm EXCEPT !.file = cm.writing[n], !.writing = Without(@, n)]
    /\ UNCHANGED <<holders, chain, cache, processedWallets, wk, run, csv, scan, rt, bp, acc, db>>

\* the process ends after its last write and a new CacheManager is made over
\* the same directory
CmRestart ==
    /\ cm.pc = "on"
    /\ cm.instance = 1
    /\ cm.timers = 0 /\ cm.writing = <<>>
    /\ \A c \in CmCallers : cm.callers[c].pc # "loading"
    /\ cm' = [NewCacheManager(cm.file) EXCEPT !.instance = 2, !.original = cm.stored,
                                              !.callers = cm.callers]
    /\ UNCHANGED <<holders, chain, cache, processedWallets, wk, run, csv, scan, rt, bp, acc, db>>

NextCache ==
    \/ \E c \in CmCallers : CmCall(c)
    \/ \E c \in CmCallers : CmLoaded(c)
    \/ \E c \in CmCallers : CmLoadFail(c)
    \/ CmTimerFire
    \/ \E n \in 1..MaxCalls : CmWriteDone(n)
    \/ CmRestart

SpecCache == InitCache /\ [][NextCache]_vars

\* ------------------------------------- EnhancedCsvWriter on partial records
\* updateRecord(key, data) called with any subset of the columns
MaxUpdates == 3
AccCallers == 1..MaxUpdates
AccFields == {"status", "airdropShare"}
AccData == UNION {[F -> {"x", "y"}] : F \in SUBSET AccFields}

\* the constructor; callers: the updateRecord calls and where they stand;
\* last: the key and data of the latest call and the table before it
NewCsvWriter ==
    [records |-> [w \in Wallets |-> {}], isWriting |-> FALSE, writeQueue |-> <<>>,
     inflight |-> [w \in Wallets |-> {}], file |-> [w \in Wallets |-> {}], failed |-> FALSE,
     writesInFlight |-> 0,
     callers |-> [i \in AccCallers |-> "idle"],
     last |-> [called |-> FALSE, key |-> "w1", data |-> NoFields,
               before |-> [w \in Wallets |-> {}]]]

InitRecords ==
    /\ holders = <<>>
    /\ chain = [w \in Wallets |-> <<>>]
    /\ cache = EmptyCache
    /\ processedWallets = {}
    /\ wk = <<>>
    /\ run = [InitRun EXCEPT !.phase = "off"]
    /\ csv = InitCsv
    /\ scan = ScanOff
    /\ rt = RtOff
    /\ bp = BpOff
    /\ cm = CmOff
    /\ db = DbOff
    /\ acc = NewCsvWriter

\* updateRecord(key, data) is called (the calls are numbered in the order
\* they are made) and runs up to the first await of scheduleWrite
AccUpdate(i) ==
    /\ acc.callers[i] = "idle"
    /\ \A j \in AccCallers : j < i => acc.callers[j] # "idle"
    /\ \E key \in Wallets : \E data \in AccData :
          LET c1 == scheduleWrite(updateRecord(acc, key, data), i)
          IN acc' = [c1 EXCEPT !.callers[i] = IF acc.isWriting THEN "waiting" ELSE "writing",
                               !.last = [called |-> TRUE, key |-> key, data |-> data,
                                         before |-> acc.records]]
    /\ UNCHANGED <<holders, chain, cache, processedWallets, wk, run, csv, scan, rt, bp, cm, db>>

\* writeRecords resolves: the finally block, the caller and the queued callers return
AccWriteOk(i) ==
    /\ acc.callers[i] = "writing"
    /\ acc' = [Release(acc) EXCEPT
                  !.file = acc.inflight,
                  !.callers = [j \in AccCallers |->
                                  IF j = i \/ j \in Queued(acc) THEN "done" ELSE acc.callers[j]]]
    /\ UNCHANGED <<holders, chain, cache, processedWallets, wk, run, csv, scan, rt, bp, cm, db>>

\* writeRecords rejects: the finally block, the caller's updateRecord rejects
AccWriteFail(i) ==
    /\ acc.callers[i] = "writing"
    /\ acc' = [Release(acc) EXCEPT
                  !.failed = TRUE,
                  !.callers = [j \in AccCallers |->
                                  IF j = i THEN "rejected"
                                  ELSE IF j \in Queued(acc) THEN "done" ELSE acc.callers[j]]]
    /\ UNCHANGED <<holders, chain, cache, processedWallets, wk, run, csv, scan, rt, bp, cm, db>>

NextRecords ==
    \/ \E i \in AccCallers : AccUpdate(i)
    \/ \E i \in AccCallers : AccWriteOk(i)
    \/ \E i \in AccCallers : AccWriteFail(i)

SpecRecords == InitRecords /\ [][NextRecords]_vars

\* ------------------------------------------- CacheManager write timer, timed
\* Time is counted in seconds; a timeout runs its callback when its delay has
\* passed.  now is the clock, timer the deadline of the pending timeout,
\* dirtySince the time of the oldest set whose value no writeFile call has
\* been given yet, lastSet the time of the last set, lastWrite the last
\* writeFile call, writing the writeFile calls that have not settled.
MaxClock == 12
\* the 5000 ms of setTimeout
WriteDelay == 5

NewWriteTimer ==
    [pc |-> "on", now |-> 0, timer |-> {}, dirtySince |-> {}, lastSet |-> {},
     lastWrite |-> {}, writing |-> 0]

InitDebounce ==
    /\ holders = <<>>
    /\ chain = [w \in Wallets |-> <<>>]
    /\ cache = EmptyCache
    /\ processedWallets = {}
    /\ wk = <<>>
    /\ run = [InitRun EXCEPT !.phase = "off"]
    /\ csv = InitCsv
    /\ scan = ScanOff
    /\ rt = RtOff
    /\ bp = BpOff
    /\ cm = CmOff
    /\ acc = AccOff
    /\ db = NewWriteTimer

timedScheduleWriteKeep(d) ==
    [d EXCEPT !.timer = IF @ = {} THEN {d.now + WriteDelay} ELSE @]

\* scheduleWrite: clearTimeout of the pending timeout, setTimeout(..., 5000)
timedScheduleWrite(d) ==
    [d EXCEPT !.timer = {d.now + WriteDelay}]

\* set(key, value) of an initialized CacheManager at the time db.now
DbSet ==
    /\ db.pc = "on"
    /\ db' = timedScheduleWrite([db EXCEPT !.lastSet = {db.now},
                                          !.dirtySince = IF @ = {} THEN {db.now} ELSE @])
    /\ UNCHANGED <<holders, chain, cache, processedWallets, wk, run, csv, scan, rt, bp, cm, acc>>

\* one second passes; a timeout that is due runs first
DbTick ==
    /\ db.pc = "on"
    /\ db.now < MaxClock
    /\ \A t \in db.timer : db.now < t
    /\ db' = [db EXCEPT !.now = @ + 1]
    /\ UNCHANGED <<holders, chain, cache, processedWallets, wk, run, csv, scan, rt, bp, cm, acc>>

\* the timeout callback runs and calls writeFile with the whole cache
DbTimerFire ==
    /\ db.pc = "on"
    /\ db.timer = {db.now}
    /\ db' = [db EXCEPT !.timer = {}, !.dirtySince = {}, !.writing = @ + 1,
                        !.lastWrite = {[at |-> db.now, lastSet |-> db.lastSet,
                                        firstChange |-> db.dirtySince]}]
    /\ UNCHANGED <<holders, chain, cache, processedWallets, wk, run, csv, scan, rt, bp, cm, acc>>

\* a writeFile call resolves
DbWriteOk ==
    /\ db.pc = "on"
    /\ db.writing > 0
    /\ db' = [db EXCEPT !.writing = @ - 1]
    /\ UNCHANGED <<holders, chain, cache, processedWallets, wk, run, csv, scan, rt, bp, cm, acc>>

\* a writeFile call rejects: the catch block names Logger, which
\* cache-manager.js does not import; the ReferenceError is an unhandled
\* rejection and index.js exits the process
DbWriteFail ==
    /\ db.pc = "on"
    /\ db.writing > 0
    /\ db' = [db EXCEPT !.writing = @ - 1, !.pc = "exited"]
    /\ UNCHANGED <<holders, chain, cache, processedWallets, wk, run, csv, scan, rt, bp, cm, acc>>

NextDebounce ==
    \/ DbSet
    \/ DbTick
    \/ DbTimerFire
    \/ DbWriteOk
    \/ DbWriteFail

SpecDebounce == InitDebounce /\ [][NextDebounce]_vars

\* =================================================================== claims
IsSale(tx) == tx.pre # Absent /\ tx.post # Absent /\ tx.post < tx.pre
IsAcquisition(tx) == tx.pre # Absent /\ tx.post # Absent /\ tx.post > tx.pre
HasSale(txs) == \E k \in 1..Len(txs) : IsSale(txs[k])
\* the last position the scan reads: the first sale, or the end of the list
ScannedLen(txs) ==
    IF HasSale(txs) THEN CHOOSE k \in 1..Len(txs) : IsSale(txs[k]) /\ \A j \in 1..(k - 1) : ~IsSale(txs[j])
    ELSE Len(txs)
NoAcquisitionScanned(txs) == \A k \in 1..ScannedLen(txs) : ~IsAcquisition(txs[k])

C2_SaleMeansIneligible ==
    (scan.pc = "result" /\ HasSale(scan.txs)) =>
        (scan.result.hasSold = TRUE /\ scan.result.isEligible = "false")

\* the reason the priority order of the claim selects
PriorityMsgs(balance, r) ==
    IF balance < MIN_TOKENS THEN {"Insufficient balance"}
    ELSE IF balance > MAX_TOKENS THEN {"Balance exceeds maximum limit"}
    ELSE IF r.hasSold THEN {"Has sold KOKO in the past"}
    ELSE IF r.firstAcquired.tag = "null"
         THEN {"No acquisition history found", "Unable to determine first acquisition"}
    ELSE IF r.holdingDays < MONTHS_REQUIRED * 30 THEN {"Insufficient holding time"}
    ELSE {"Meets all eligibility criteria"}

EligibleRecords(records) == {w \in Wallets : \E r \in records[w] : r.status = "ELIGIBLE"}
RecordOf(records, w) == CHOOSE r \in records[w] : TRUE

RECURSIVE SumOver(_, _, _)
\* the sum of f over the eligible records of the wallets in ws
SumOver(records, ws, f) ==
    IF ws = {} THEN 0
    ELSE LET w == CHOOSE x \in ws : TRUE
             r == RecordOf(records, w)
         IN (IF f = "balance" THEN parseAmount(r.currentAmount) ELSE r.airdropShare.v)
            + SumOver(records, ws \ {w}, f)

Abs(n) == IF n < 0 THEN -n ELSE n
Accountings(w) ==
    Cardinality({n \in 1..Len(run.eligibleHolders) : run.eligibleHolders[n].owner = w})
CallsOutstanding == {i \in Idx : wk[i].pc \in {"writing", "waitWrite"}}

\* C3: a wallet that appears more than once in the holder list is appended
\* to the eligible set, and its balance added to the eligible total, at most
\* once per run, under every interleaving of the workers.
C3_AccountedAtMostOnce == \A w \in Wallets : Accountings(w) <= 1

\* C4: once every holder is processed with a positive eligible total, the
\* run ends with every eligible record carrying its 4-decimal share, the
\* record table flushed to the report file, and success.
C4_RunCompletesWithShares ==
    (run.phase \in {"done", "failed"} /\ run.totalEligibleKoko > 0) =>
        /\ run.phase = "done"
        /\ csv.file = csv.records
        /\ \A w \in EligibleRecords(csv.records) :
              LET r == RecordOf(csv.records, w)
              IN r.airdropShare = [kind |-> "fixed",
                                   v |-> toFixed4Percent(parseAmount(r.currentAmount),
                                                         run.totalEligibleKoko)]

\* C5: once every updateRecord call has returned (and no write has failed),
\* the content last written to the report file holds every record upserted
\* so far with its latest field values.
C5_NoLostUpdate ==
    (run.phase \in {"processing", "processed"} /\ CallsOutstanding = {} /\ ~csv.failed) =>
        csv.file = csv.records

\* C6: when all holders have been processed, the total eligible balance
\* equals the sum of the current balances of exactly the records marked
\* eligible.
C6_TotalIsSumOfEligibleRecords ==
    run.phase = "processed" =>
        run.totalEligibleKoko = SumOver(csv.records, EligibleRecords(csv.records), "balance")

\* C7: after share finalization the shares of the eligible records sum to
\* 100 percent, up to half a unit of the fourth decimal per record.
C7_SharesSumTo100 ==
    run.phase \in {"flush", "failed"} =>
        2 * Abs(SumOver(csv.records, EligibleRecords(csv.records), "share") - 1000000)
            <= Cardinality(EligibleRecords(csv.records))

\* C10: a failure in one holder's worker is caught there: the error counter
\* counts exactly the failed holders, each of them has returned (null), the
\* run is not aborted by it (while holders remain, a step is always
\* possible) and when process returns every holder has been handled.
C10_FailureContained ==
    /\ run.stats.errors = Cardinality({i \in Idx : wk[i].outcome = "error"})
    /\ \A i \in Idx : wk[i].outcome = "error" => wk[i].pc = "done"
    /\ run.phase = "processing" => ENABLED Next
    /\ run.phase \in {"processed", "flush", "done", "failed"} =>
           \A i \in Idx : wk[i].pc = "done" /\ wk[i].outcome # "pending"
    /\ run.phase = "failed" => run.totalEligibleKoko > 0

\* a holder failed and a holder of a later batch was still processed
C10_Witness ==
    \E i \in Idx : \E j \in Idx :
        /\ wk[i].outcome = "error"
        /\ (j - 1) \div BatchSize > (i - 1) \div BatchSize
        /\ wk[j].outcome = "processed"
        /\ run.stats.errors = 1

\* C11: a wallet whose transaction retrieval failed gets the analysis of the
\* catch block of analyzeWallet: not eligible, reason 'Error during analysis',
\* firstAcquired null, hasSold false, holdingDays 0.
C11_FetchFailureIsErrorAnalysis ==
    \A i \in Idx : wk[i].fetchError # "none" =>
        wk[i].analysis = ErrorAnalysis(holders[i].amount)

\* C12: a failure of the provider surfaces only after retryLimit attempts and
\* as the provider's own error, for the holder listing and for the signature
\* listing; no transaction is left out because its detail call failed.
C12_ProviderFailuresRetried ==
    /\ run.phase = "holdersFailed" =>
           run.attempt = retryLimit /\ run.fatal = "ProviderError"
    /\ \A i \in Idx : wk[i].fetchError # "none" =>
           wk[i].attempt = retryLimit /\ wk[i].fetchError = "ProviderError"
    /\ \A i \in Idx : ~wk[i].dropped

\* C18: at most one writeRecords call of the csv writer is unsettled at any
\* time; it belongs to the one worker that started it, and a worker whose
\* updateRecord arrived meanwhile waits in writeQueue.
C18_OneWriteInFlight ==
    /\ csv.writesInFlight <= 1
    /\ csv.writesInFlight = Cardinality({i \in Idx : wk[i].pc = "writing"})
    /\ csv.isWriting <=> csv.writesInFlight = 1
    /\ \A i \in Idx : wk[i].pc = "waitWrite" => csv.isWriting /\ i \in Queued(csv)

\* an updateRecord arrived while a write was in flight
C18_Witness ==
    \E i \in Idx : \E j \in Idx :
        wk[i].pc = "writing" /\ wk[j].pc = "waitWrite" /\ csv.writesInFlight = 1

\* C13: withRetry invokes fn at most options.retries times; it returns the
\* value of the first invocation that resolves and invokes nothing after it;
\* when every invocation rejects it has invoked fn exactly options.retries
\* times and throws the error of the last invocation itself.
C13_WithRetryAttempts ==
    /\ rt.calls <= rt.options.retries
    /\ rt.calls = Len(rt.errors) + (IF rt.pc \in {"pending", "returned"} THEN 1 ELSE 0)
    /\ rt.pc = "returned" => rt.result \in RetryValues
    /\ rt.pc \in {"returned", "thrown"} => ~ENABLED NextRetry
    /\ rt.pc = "thrown" =>
           /\ rt.calls = rt.options.retries
           /\ rt.options.retries >= 1 => rt.thrown = rt.errors[rt.calls]

\* three attempts rejected with different errors and the last one was thrown
C13_Witness ==
    /\ rt.pc = "thrown"
    /\ rt.calls = 3
    /\ rt.errors[1] = "E1"
    /\ rt.thrown = "E2"

\* C14: at most BpLimit tasks handed to the limiter are running at any
\* moment, and a task that is queued while a slot is free is the next to start.
C14_AtMostLimitRunning ==
    /\ Cardinality(Occupied(bp)) <= BpLimit
    /\ \A i \in BpIdx :
          (bp.st[i] = "queued" /\ Cardinality(Occupied(bp)) < BpLimit)
              => \E j \in BpIdx : ENABLED BpStart(j)

\* every slot is taken and a task of the batch waits
C14_Witness ==
    /\ Cardinality(Occupied(bp)) = BpLimit
    /\ \E i \in BpIdx : bp.st[i] = "queued"

\* C15: a task that threw holds no slot, the tasks still queued or running
\* can always go on, and once a task has thrown process has rejected, with
\* the error of the task that threw first, and never resolves.
C15_ThrowReleasesAndRejects ==
    /\ \A i \in BpIdx : bp.st[i] = "rejected" => i \notin Occupied(bp)
    /\ (\E i \in BpIdx : bp.st[i] \in {"queued", "running"}) => ENABLED NextBatch
    /\ (\E i \in BpIdx : bp.st[i] = "rejected") <=> bp.pc = "rejected"
    /\ bp.pc = "rejected" => bp.error = bp.throws[1] /\ bp.st[bp.error] = "rejected"

\* the first BpLimit tasks threw and the task queued behind them ran
C15_Witness ==
    /\ Len(bp.items) > BpLimit
    /\ \A i \in 1..BpLimit : bp.st[i] = "rejected"
    /\ bp.st[BpLimit + 1] = "resolved"
    /\ bp.pc = "rejected"

\* C20: the array process returns has one element per item, the i-th being
\* the value of processFn for the i-th item; while it runs, results holds
\* exactly that for the batches completed.
C20_ResultsAligned ==
    /\ bp.pc = "resolved" => Len(bp.results) = Len(bp.items)
    /\ \A i \in 1..Len(bp.results) : bp.results[i] = ResultOf(bp.items[i])

\* two batches, tasks resolved out of input order, different items
C20_Witness ==
    /\ bp.pc = "resolved"
    /\ Len(bp.items) > BpBatchSize
    /\ bp.outOfOrder
    /\ bp.items[1] # bp.items[2]

\* C16: an instance reads the cache file at most once, and the value of a
\* set that has returned stays in the in-memory mapping.
C16_InitIdempotent ==
    /\ cm.loads <= 1
    /\ \A k \in CmKeys : cm.stored[k] # {} => cm.cache[k] = cm.stored[k]

\* C17: at most one timeout is pending; every run of set calls that each
\* found the previous timeout pending is followed by exactly one writeFile
\* call, and once no timeout is pending the text written last holds the value
\* of every set that has returned.
C17_DebouncedWriteComplete ==
    /\ cm.timers <= 1
    /\ cm.arms = cm.fires + cm.timers
    /\ (cm.timers = 0 /\ cm.fires > 0) =>
           \A k \in CmKeys : cm.stored[k] # {} => cm.written[k] = Stringify(cm.stored)[k]

\* C19: what a get of the second instance returns for a key the first
\* instance stored is equal to the value stored, and updateCsvRecord accepts it.
C19_CacheRoundTrip ==
    \A c \in CmCallers :
        LET call == cm.callers[c]
        IN (call.inst = 2 /\ call.pc = "done" /\ call.op = "get" /\ call.got # {}
              /\ cm.stored[call.key] = {} /\ cm.original[call.key] # {})
           => /\ call.got = cm.original[call.key]
              /\ \A v \in call.got : ~RecordThrows(v)

\* C21: after updateRecord(key, data) the record of key has the value of
\* data for every field of data and its previous value for every other field
\* (none when the key was absent), and the records of the other keys are as
\* they were.
C21_MergePerField ==
    acc.last.called =>
        LET key == acc.last.key
            data == acc.last.data
            old == acc.last.before
            new == RecordGet(acc, key)
        IN /\ acc.records[key] # {}
           /\ \A f \in DOMAIN data : f \in DOMAIN new /\ new[f] = data[f]
           /\ \A r \in old[key] :
                 \A f \in DOMAIN r \ DOMAIN data : f \in DOMAIN new /\ new[f] = r[f]
           /\ DOMAIN new = DOMAIN data \cup UNION {DOMAIN r : r \in old[key]}
           /\ \A w \in Wallets \ {key} : acc.records[w] = old[w]

\* the latest call gave one field of a record that held only the other field
\* with a different value, and both are there
C21_Witness ==
    /\ acc.last.called
    /\ DOMAIN acc.last.data = {"airdropShare"}
    /\ \E r \in acc.last.before[acc.last.key] : DOMAIN r = {"status"} /\ r.status = "x"
    /\ \E r \in acc.records[acc.last.key] : r.status = "x" /\ r.airdropShare = "y"

\* minDelay doubled k - 1 times
RECURSIVE Doubled(_, _)
Doubled(d, k) == IF k <= 1 THEN d ELSE 2 * Doubled(d, k - 1)

\* C22: the k-th delay of withRetry is min(minTimeout * 2^(k-1), maxTimeout)
\* and follows the k-th failed attempt, k < retries; there is one delay per
\* failed attempt but none after the last attempt, and none after a success.
C22_DelaysExact ==
    /\ \A k \in 1..Len(rt.delays) :
          /\ k < rt.options.retries
          /\ LET d == Doubled(rt.options.minTimeout, k)
             IN rt.delays[k] = IF d < rt.options.maxTimeout THEN d ELSE rt.options.maxTimeout
    /\ Len(rt.delays) = IF rt.pc = "thrown" /\ rt.options.retries >= 1
                        THEN Len(rt.errors) - 1 ELSE Len(rt.errors)
    /\ rt.pc = "sleeping" => Len(rt.delays) = rt.attempt

\* three delays were waited, the third one cut at maxTimeout, then a success
C22_Witness ==
    /\ rt.pc = "returned"
    /\ rt.options.minTimeout = 1000
    /\ rt.delays = <<1000, 2000, 3000>>

\* the greatest and the least element of a non-empty set of numbers
SetMax(S) == CHOOSE x \in S : \A y \in S : y <= x
SetMin(S) == CHOOSE x \in S : \A y \in S : x <= y
\* the prefix of the list that ends at the first sale
Prefix(txs) == SubSeq(txs, 1, ScannedLen(txs))
AcquisitionTimes(txs) == {txs[k].blockTime : k \in {n \in 1..Len(txs) : IsAcquisition(txs[n])}}
PostBalances(txs) == {txs[k].post : k \in {n \in 1..Len(txs) : txs[n].post # Absent}}

\* C23: firstAcquired is the least timestamp of the acquisitions in the
\* prefix that ends at the first sale (null without one), maxHeld the greatest
\* of currentBalance and the post-balances in that prefix, and the analysis of
\* the prefix alone gives the same two values.
C23_ScanIsFoldOverPrefix ==
    scan.pc = "result" =>
        LET pre == Prefix(scan.txs)
            alone == processWalletTransactions(scan.balance, pre)
        IN /\ scan.result.firstAcquired =
                  IF AcquisitionTimes(pre) = {} THEN NullDate
                  ELSE DateOf(SetMin(AcquisitionTimes(pre)))
           /\ scan.result.maxHeld = SetMax({scan.balance} \cup PostBalances(pre))
           /\ scan.result.maxHeld >= scan.balance
           /\ alone.firstAcquired = scan.result.firstAcquired
           /\ alone.maxHeld = scan.result.maxHeld

\* holder i called analyzeWallet for a wallet another holder had already
\* handed to it in this run
SecondCall(i) ==
    /\ wk[i].pc = "getOwner"
    /\ holders[i].owner \in processedWallets
    /\ ~Hit(cache, OwnerKey(holders[i].owner))
FirstCaller(i) ==
    {j \in Idx \ {i} : /\ holders[j].owner = holders[i].owner
                        /\ wk[j].pc \notin {"queued", "getOwner"}
                        /\ wk[j].outcome # "skipped"}

\* C24 (as stated): two holders of the same wallet with the same balance,
\* both analysed in the run without an error, carry the same analysis.
C24_SecondAnalysisIdentical ==
    \A i, j \in Idx :
        (/\ holders[i] = holders[j]
         /\ wk[i].pc = "done" /\ wk[j].pc = "done"
         /\ wk[i].outcome # "error" /\ wk[j].outcome # "error")
        => wk[i].analysis = wk[j].analysis

\* C24 (amended): the second analyzeWallet call for a wallet in the same run
\* returns null: the holder is skipped with no analysis, the counters,
\* the eligible set, the records, the cache and processedWallets stay as
\* they were, and a holder that made the first call exists.
C24_SecondCallIsNoOp ==
    [][\A i \in Idx :
          /\ (SecondCall(i) /\ wk'[i] # wk[i]) =>
                 /\ wk'[i] = [wk[i] EXCEPT !.pc = "done", !.outcome = "skipped"]
                 /\ wk'[i].analysis = NullAnalysis
                 /\ FirstCaller(i) # {}
                 /\ UNCHANGED <<run, csv, cache, processedWallets>>
          /\ (wk'[i].outcome = "skipped" /\ wk[i].outcome # "skipped") => SecondCall(i)]_vars
C24_Witness ==
    \E i \in Idx : /\ wk[i].outcome = "skipped"
                    /\ \E j \in Idx : /\ holders[j] = holders[i]
                                        /\ wk[j].pc = "done"
                                        /\ wk[j].outcome = "processed"
                                        /\ wk[j].analysis.isEligible = "true"

C26_EligibleRecordInRange ==
    \A w \in Wallets : \A r \in csv.records[w] :
        r.status = "ELIGIBLE" =>
            /\ MIN_TOKENS <= parseAmount(r.currentAmount)
            /\ parseAmount(r.currentAmount) <= MAX_TOKENS

\* the run has ended: analyze returned or threw
Terminal == run.phase \in {"done", "failed", "holdersFailed"}
\* upper bounds of the steps a worker and the run have left
PcRank(pc) ==
    CASE pc = "queued" -> 9 [] pc = "getOwner" -> 8 [] pc = "getAnalysis" -> 7
      [] pc = "getTx" -> 6 [] pc = "fetching" -> 5 [] pc = "setTx" -> 4
      [] pc = "setAnalysis" -> 3 [] pc = "setOwner" -> 2
      [] pc \in {"writing", "waitWrite"} -> 1 [] pc = "done" -> 0
WorkerRank(w) == PcRank(w.pc) + (retryLimit - w.attempt)
PhaseRank(phase) ==
    CASE phase = "getHolders" -> 6 [] phase = "fetchHolders" -> 5
      [] phase = "processing" -> 4 [] phase = "processed" -> 3
      [] phase = "flush" -> 2 [] phase \in {"done", "failed", "holdersFailed"} -> 0
RECURSIVE RankSum(_, _)
\* the sum of the ranks of the workers 1..n
RankSum(w, n) == IF n = 0 THEN 0 ELSE WorkerRank(w[n]) + RankSum(w, n - 1)
Measure(h, r, w) ==
    PhaseRank(r.phase) + (retryLimit - r.attempt) + (Len(h) + BatchSize - r.batchLo)
    + RankSum(w, Len(w))
WithOutcome(o) == {i \in Idx : wk[i].outcome = o}
Waiting == {i \in Idx : wk[i].pc = "waitWrite"}
Writers == {i \in Idx : wk[i].pc = "writing"}

\* C27: a run over a finite holder list ends whenever every call settles:
\* some step is possible until analyze has returned or thrown and every step
\* brings the end nearer; a call waiting behind a write has a write in flight
\* and is released when that write resolves or rejects; a batch starts only
\* when all earlier ones are complete; and after the last batch every holder
\* is processed, error or skipped, with processed + errors + skipped equal to
\* the number of holders.
C27_Progress ==
    /\ ~Terminal => ENABLED Next
    /\ Waiting # {} => (csv.isWriting /\ Cardinality(Writers) = 1)
    /\ Waiting = Queued(csv)
    /\ \A i \in Idx :
          /\ (i < run.batchLo) => (wk[i].pc = "done")
          /\ (i >= run.batchLo + BatchSize) => (wk[i].pc = "queued")
          /\ (wk[i].pc # "queued") => (run.phase = "processing" \/ wk[i].pc = "done")
    /\ run.stats.processed = Cardinality(WithOutcome("processed"))
    /\ run.stats.errors = Cardinality(WithOutcome("error"))
    /\ run.phase \in {"processed", "flush", "done", "failed"} =>
          /\ \A i \in Idx : /\ wk[i].pc = "done"
                             /\ wk[i].outcome \in {"processed", "error", "skipped"}
          /\ run.stats.processed + run.stats.errors + Cardinality(WithOutcome("skipped"))
             = Len(holders)
C27_Step ==
    /\ Measure(holders, run, wk)' < Measure(holders, run, wk)
    /\ (\E i \in Writers : wk'[i].pc # "writing") =>
           (\A j \in Waiting : wk'[j].pc = "done" /\ wk'[j].outcome = "processed")
====
